---------------------------- MODULE Spec2Model ----------------------------
(***************************************************************************)
(* A model of scrapegraph_mcp/server.py: the eight MCP tools, the          *)
(* credential resolver get_api_key and the upstream client                 *)
(* ScapeGraphClient.                                                       *)
(*                                                                         *)
(* Conventions.  A Python str is a sequence of tokens (so that "starts     *)
(* with" and "contains" are computed, not assumed).  An optional value is  *)
(* a sequence of length at most one: << >> is None, <<v>> is v.  A Python  *)
(* value is a record with one field naming its type: [str |-> ..],         *)
(* [int |-> ..], [bool |-> ..], [list |-> ..], [dict |-> ..].  An          *)
(* exception is [cls |-> class name, msg |-> str(e)].                      *)
(***************************************************************************)
EXTENDS Integers, Sequences, FiniteSets, TLC

(***************************************************************************)
(* Bounds of the model.                                                    *)
(***************************************************************************)
\* A caller supplies at most this many of a tool's optional parameters.
MaxOptional == 2
\* The process handles invocations while fewer than this many httpx clients
\* are open.
MaxClients == 2
\* The interpreter's recursion limit, as nesting levels json.loads accepts.
RecursionLimit == 3
\* The callers the server handles at the same time.
MaxWorkers == 2
\* The calls of an initiate-then-poll sequence.
MaxCalls == 4

(***************************************************************************)
(* Strings.                                                                *)
(***************************************************************************)
None == << >>

Some(v) == <<v>>

Contains(text, tok) == \E i \in DOMAIN text : text[i] = tok

IsInfix(part, text) ==
    \E i \in 0..(Len(text) - Len(part)) :
        \A j \in 1..Len(part) : text[i + j] = part[j]

StartsWith(text, tok) == Len(text) >= 1 /\ text[1] = tok

\* A text of plain words, e.g. T(<<"Error ", "500">>).
T(words) == [i \in DOMAIN words |-> [w |-> words[i]]]

\* Python truthiness of an Optional[str]: neither None nor "".
Truthy(opt) == opt # None /\ opt[1] # << >>

(***************************************************************************)
(* Exceptions: the classes the handlers' except clauses tell apart.        *)
(***************************************************************************)
Bases(cls) ==
    CASE cls = "ValueError"      -> {"ValueError", "Exception"}
      [] cls = "JSONDecodeError" -> {"JSONDecodeError", "ValueError", "Exception"}
      [] cls = "HTTPStatusError" -> {"HTTPStatusError", "HTTPError", "Exception"}
      [] cls = "ReadTimeout"     ->
            {"ReadTimeout", "TimeoutException", "HTTPError", "Exception"}
      [] cls = "ConnectError"    -> {"ConnectError", "HTTPError", "Exception"}
      [] cls = "RecursionError"  -> {"RecursionError", "RuntimeError", "Exception"}
      [] OTHER                   -> {cls, "Exception"}

Exc(cls, msg) == [cls |-> cls, msg |-> msg]


(***************************************************************************)
(* json.loads.  A text is a sequence of tokens: [p |-> "["] punctuation,   *)
(* [q |-> "a"] the string literal "a", [n |-> 1] a number literal,         *)
(* [w |-> ..] any other word.  The decoder returns the decoded value,      *)
(* raises JSONDecodeError on a syntax error, and raises RecursionError on  *)
(* containers nested deeper than the interpreter's recursion limit.        *)
(***************************************************************************)
IsP(tok, c) == "p" \in DOMAIN tok /\ tok.p = c

EmptyDict == [k \in {} |-> k]

PyStr(text) == [str |-> text]

PyList(items) == [list |-> items]

PyDict(f) == [dict |-> f]

IsDict(v) == "dict" \in DOMAIN v

IsList(v) == "list" \in DOMAIN v

IsStr(v) == "str" \in DOMAIN v

RECURSIVE ParseVal(_, _, _)
RECURSIVE ParseArr(_, _, _, _)
RECURSIVE ParseObj(_, _, _, _)

ParseVal(s, i, d) ==
    IF i > Len(s) THEN [st |-> "err"]
    ELSE IF "q" \in DOMAIN s[i] THEN
        [st |-> "ok", val |-> PyStr(T(<<s[i].q>>)), nx |-> i + 1]
    ELSE IF "n" \in DOMAIN s[i] THEN
        [st |-> "ok", val |-> [int |-> s[i].n], nx |-> i + 1]
    ELSE IF IsP(s[i], "[") THEN
        IF d > RecursionLimit THEN [st |-> "rec"]
        ELSE IF i + 1 <= Len(s) /\ IsP(s[i + 1], "]") THEN
            [st |-> "ok", val |-> PyList(<< >>), nx |-> i + 2]
        ELSE ParseArr(s, i + 1, d + 1, << >>)
    ELSE IF IsP(s[i], "{") THEN
        IF d > RecursionLimit THEN [st |-> "rec"]
        ELSE IF i + 1 <= Len(s) /\ IsP(s[i + 1], "}") THEN
            [st |-> "ok", val |-> PyDict(EmptyDict), nx |-> i + 2]
        ELSE ParseObj(s, i + 1, d + 1, EmptyDict)
    ELSE [st |-> "err"]

ParseArr(s, i, d, acc) ==
    LET r == ParseVal(s, i, d) IN
    IF r.st # "ok" THEN r
    ELSE IF r.nx > Len(s) THEN [st |-> "err"]
    ELSE IF IsP(s[r.nx], ",") THEN ParseArr(s, r.nx + 1, d, Append(acc, r.val))
    ELSE IF IsP(s[r.nx], "]") THEN
        [st |-> "ok", val |-> PyList(Append(acc, r.val)), nx |-> r.nx + 1]
    ELSE [st |-> "err"]

ParseObj(s, i, d, acc) ==
    IF i + 1 > Len(s) \/ "q" \notin DOMAIN s[i] \/ ~IsP(s[i + 1], ":")
    THEN [st |-> "err"]
    ELSE LET r == ParseVal(s, i + 2, d) IN
        IF r.st # "ok" THEN r
        ELSE IF r.nx > Len(s) THEN [st |-> "err"]
        ELSE IF IsP(s[r.nx], ",") THEN
            ParseObj(s, r.nx + 1, d, (s[i].q :> r.val) @@ acc)
        ELSE IF IsP(s[r.nx], "}") THEN
            [st |-> "ok", val |-> PyDict((s[i].q :> r.val) @@ acc), nx |-> r.nx + 1]
        ELSE [st |-> "err"]

\* json.loads(s): [ok |-> TRUE, val |-> v] or [ok |-> FALSE, exc |-> e].
json_loads(s) ==
    LET r == ParseVal(s, 1, 1) IN
    IF r.st = "rec" THEN
        [ok |-> FALSE,
         exc |-> Exc("RecursionError", T(<<"maximum recursion depth exceeded">>))]
    ELSE IF r.st = "ok" /\ r.nx = Len(s) + 1 THEN [ok |-> TRUE, val |-> r.val]
    ELSE [ok |-> FALSE, exc |-> Exc("JSONDecodeError", T(<<"Expecting value">>))]

\* Sample texts.
P(c) == [p |-> c]

Q(c) == [q |-> c]

\* '{"type":"object"}'
TextObject == <<P("{"), Q("type"), P(":"), Q("object"), P("}")>>

\* '{"type":"object","required":["name"]}'
TextObjectRequired ==
    <<P("{"), Q("type"), P(":"), Q("object"), P(","),
      Q("required"), P(":"), P("["), Q("name"), P("]"), P("}")>>

\* '["a","b"]'
TextList == <<P("["), Q("a"), P(","), Q("b"), P("]")>>

\* '{"type":' : not valid JSON
TextBroken == <<P("{"), Q("type"), P(":")>>

\* 'do the thing' : not JSON at all
TextPlain == T(<<"do the thing">>)

\* '[[[[...' : nested one level deeper than the recursion limit allows
TextDeep == [i \in 1..(RecursionLimit + 1) |-> P("[")]

(***************************************************************************)
(* get_api_key: the credential resolver.  ctx.header is what               *)
(* get_http_headers() does ([http |-> FALSE]: it raises LookupError;       *)
(* otherwise x_api_key is headers.get('x-api-key')); ctx.config is         *)
(* ctx.session_config ([present |-> FALSE]: missing or None).              *)
(***************************************************************************)
NoKeyMessage ==
    T(<<"ScapeGraph API key is required. Please provide it via:\n",
        "- HTTP header '", "X-API-Key", "' (for remote server via mcp-remote)\n",
        "- MCP config '", "scrapegraphApiKey", "' (for Smithery/local stdio)">>)

\* A resolver that tries the session configuration first.
get_api_key_ConfigFirst(ctx) ==
    IF ctx.config.present /\ Truthy(ctx.config.scrapegraph_api_key) THEN
        [ok |-> TRUE, key |-> ctx.config.scrapegraph_api_key, exc |-> None,
         consulted |-> <<"header", "session_config">>]
    ELSE IF ctx.header.http /\ Truthy(ctx.header.x_api_key) THEN
        [ok |-> TRUE, key |-> ctx.header.x_api_key, exc |-> None,
         consulted |-> <<"header">>]
    ELSE
        [ok |-> FALSE, key |-> None,
         exc |-> Some(Exc("ValueError", NoKeyMessage)),
         consulted |-> <<"header", "session_config">>]

get_api_key(ctx) ==
    IF ctx.header.http /\ Truthy(ctx.header.x_api_key) THEN
        [ok |-> TRUE, key |-> ctx.header.x_api_key, exc |-> None,
         consulted |-> <<"header">>]
    ELSE IF ctx.config.present /\ Truthy(ctx.config.scrapegraph_api_key) THEN
        [ok |-> TRUE, key |-> ctx.config.scrapegraph_api_key, exc |-> None,
         consulted |-> <<"header", "session_config">>]
    ELSE
        [ok |-> FALSE, key |-> None,
         exc |-> Some(Exc("ValueError", NoKeyMessage)),
         consulted |-> <<"header", "session_config">>]

(***************************************************************************)
(* ScapeGraphClient.                                                       *)
(***************************************************************************)
BASE_URL == "https://api.scrapegraphai.com/v1"

DefaultTimeout == 120

\* ScapeGraphClient.__init__
NewClient(api_key) ==
    [api_key |-> api_key,
     headers |-> ("SGAI-APIKEY" :> api_key @@ "Content-Type" :> T(<<"application/json">>)),
     timeout |-> DefaultTimeout]

\* self.client.post(url, headers=self.headers, json=data)
Post(client, path, data) ==
    [method |-> "POST", url |-> T(<<BASE_URL, path>>), headers |-> client.headers,
     json |-> Some(data), timeout |-> client.timeout]

\* A payload builder that tests the value's truth, so that False and 0 are
\* left out like None.
PutOpt_Truthy(data, key, opt) ==
    IF opt # None /\ opt[1] \notin {[bool |-> FALSE], [int |-> 0]}
    THEN (key :> opt[1]) @@ data
    ELSE data

\* data[key] = value, when the value is not None
PutOpt(data, key, opt) == IF opt # None THEN (key :> opt[1]) @@ data ELSE data

Raise(cls, words) == [kind |-> "raise", exc |-> Exc(cls, T(words))]

Send(request) == [kind |-> "send", request |-> request]

\* ScapeGraphClient.markdownify, up to the request
client_markdownify(client, a) ==
    Send(Post(client, "/markdownify", "website_url" :> a.website_url))

\* An input source chosen in the reverse order: markdown first, URL last.
SmartscraperSource_MarkdownFirst(a) ==
    IF a.website_markdown # None THEN Some("website_markdown")
    ELSE IF a.website_html # None THEN Some("website_html")
    ELSE IF a.website_url # None THEN Some("website_url")
    ELSE None

\* ScapeGraphClient.smartscraper: the input source
SmartscraperSource(a) ==
    IF a.website_url # None THEN Some("website_url")
    ELSE IF a.website_html # None THEN Some("website_html")
    ELSE IF a.website_markdown # None THEN Some("website_markdown")
    ELSE None

\* A smartscraper without the final else: no source, and the request goes out.
client_smartscraper_NoSourceCheck(client, a) ==
    LET src == SmartscraperSource(a)
        d0  == IF src = None THEN "user_prompt" :> a.user_prompt
               ELSE (src[1] :> a[src[1]][1]) @@ ("user_prompt" :> a.user_prompt)
    IN Send(Post(client, "/smartscraper", PutOpt(d0, "output_schema", a.output_schema)))

\* A smartscraper that files every source under website_url.
client_smartscraper_WrongKey(client, a) ==
    LET src == SmartscraperSource(a) IN
    IF src = None THEN
        Raise("ValueError",
              <<"Must provide one of: ", "website_url", ", ", "website_html",
                ", or ", "website_markdown">>)
    ELSE
        Send(Post(client, "/smartscraper",
                  ("website_url" :> a[src[1]][1]) @@ ("user_prompt" :> a.user_prompt)))

\* ScapeGraphClient.smartscraper, up to the request
client_smartscraper(client, a) ==
    LET src == SmartscraperSource(a) IN
    IF src = None THEN
        Raise("ValueError",
              <<"Must provide one of: ", "website_url", ", ", "website_html",
                ", or ", "website_markdown">>)
    ELSE
        LET d0 == (src[1] :> a[src[1]][1]) @@ ("user_prompt" :> a.user_prompt)
            d1 == PutOpt(d0, "output_schema", a.output_schema)
            d2 == PutOpt(d1, "number_of_scrolls", a.number_of_scrolls)
            d3 == PutOpt(d2, "total_pages", a.total_pages)
            d4 == PutOpt(d3, "render_heavy_js", a.render_heavy_js)
            d5 == PutOpt(d4, "stealth", a.stealth)
        IN Send(Post(client, "/smartscraper", d5))

\* ScapeGraphClient.searchscraper, up to the request
client_searchscraper(client, a) ==
    LET d0 == "user_prompt" :> a.user_prompt
        d1 == PutOpt(d0, "num_results", a.num_results)
        d2 == PutOpt(d1, "number_of_scrolls", a.number_of_scrolls)
    IN Send(Post(client, "/searchscraper", d2))

\* ScapeGraphClient.scrape, up to the request
client_scrape(client, a) ==
    Send(Post(client, "/scrape",
              PutOpt("website_url" :> a.website_url, "render_heavy_js",
                     a.render_heavy_js)))

\* ScapeGraphClient.sitemap, up to the request
client_sitemap(client, a) ==
    Send(Post(client, "/sitemap", "website_url" :> a.website_url))

\* An agentic_scrapper that always posts under the client's own timeout.
client_agentic_scrapper_ClientTimeout(client, a) ==
    LET d0 == "url" :> a.url
        d1 == PutOpt(d0, "user_prompt", a.user_prompt)
        d2 == PutOpt(d1, "output_schema", a.output_schema)
        d3 == PutOpt(d2, "steps", a.steps)
        d4 == PutOpt(d3, "ai_extraction", a.ai_extraction)
        d5 == PutOpt(d4, "persistent_session", a.persistent_session)
    IN Send(Post(client, "/agentic-scrapper", d5))

\* ScapeGraphClient.agentic_scrapper, up to the request
client_agentic_scrapper(client, a) ==
    LET d0 == "url" :> a.url
        d1 == PutOpt(d0, "user_prompt", a.user_prompt)
        d2 == PutOpt(d1, "output_schema", a.output_schema)
        d3 == PutOpt(d2, "steps", a.steps)
        d4 == PutOpt(d3, "ai_extraction", a.ai_extraction)
        d5 == PutOpt(d4, "persistent_session", a.persistent_session)
        r  == Post(client, "/agentic-scrapper", d5)
    IN IF a.timeout_seconds # None
       THEN Send([r EXCEPT !.timeout = a.timeout_seconds[1]])
       ELSE Send(r)

\* The optional parameters of a crawl, added to the payload when given.
CrawlOptions(d, a) ==
    PutOpt(PutOpt(PutOpt(d, "depth", a.depth), "max_pages", a.max_pages),
           "same_domain_only", a.same_domain_only)

\* A smartcrawler_initiate that does not insist on a prompt in ai mode.
client_smartcrawler_initiate_NoPromptCheck(client, a) ==
    LET d0 == "url" :> a.url IN
    IF a.extraction_mode = "markdown" THEN
        Send(Post(client, "/crawl",
                  CrawlOptions(("markdown_only" :> [bool |-> TRUE]) @@ d0, a)))
    ELSE IF a.extraction_mode = "ai" THEN
        Send(Post(client, "/crawl", CrawlOptions(PutOpt(d0, "prompt", a.prompt), a)))
    ELSE
        Raise("ValueError",
              <<"Invalid extraction_mode: ", a.extraction_mode, ". Must be '", "ai",
                "' or '", "markdown", "'">>)

\* A smartcrawler_initiate that forwards the prompt in markdown mode too.
client_smartcrawler_initiate_PromptInMarkdown(client, a) ==
    LET d0 == "url" :> a.url IN
    IF a.extraction_mode = "markdown" THEN
        Send(Post(client, "/crawl",
                  CrawlOptions(PutOpt(("markdown_only" :> [bool |-> TRUE]) @@ d0,
                                      "prompt", a.prompt), a)))
    ELSE IF a.extraction_mode = "ai" THEN
        IF a.prompt = None THEN
            Raise("ValueError", <<"prompt is required when extraction_mode is 'ai'">>)
        ELSE Send(Post(client, "/crawl",
                       CrawlOptions(("prompt" :> a.prompt[1]) @@ d0, a)))
    ELSE
        Raise("ValueError",
              <<"Invalid extraction_mode: ", a.extraction_mode, ". Must be '", "ai",
                "' or '", "markdown", "'">>)

\* A smartcrawler_initiate that takes every mode but "markdown" for "ai".
client_smartcrawler_initiate_DefaultAi(client, a) ==
    LET d0 == "url" :> a.url IN
    IF a.extraction_mode = "markdown" THEN
        Send(Post(client, "/crawl",
                  CrawlOptions(("markdown_only" :> [bool |-> TRUE]) @@ d0, a)))
    ELSE IF a.prompt = None THEN
        Raise("ValueError", <<"prompt is required when extraction_mode is 'ai'">>)
    ELSE Send(Post(client, "/crawl", CrawlOptions(("prompt" :> a.prompt[1]) @@ d0, a)))

\* ScapeGraphClient.smartcrawler_initiate, up to the request
client_smartcrawler_initiate(client, a) ==
    LET d0 == "url" :> a.url IN
    IF a.extraction_mode = "markdown" THEN
        LET d1 == ("markdown_only" :> [bool |-> TRUE]) @@ d0
            d2 == PutOpt(d1, "depth", a.depth)
            d3 == PutOpt(d2, "max_pages", a.max_pages)
            d4 == PutOpt(d3, "same_domain_only", a.same_domain_only)
        IN Send(Post(client, "/crawl", d4))
    ELSE IF a.extraction_mode = "ai" THEN
        IF a.prompt = None THEN
            Raise("ValueError", <<"prompt is required when extraction_mode is 'ai'">>)
        ELSE
            LET d1 == ("prompt" :> a.prompt[1]) @@ d0
                d2 == PutOpt(d1, "depth", a.depth)
                d3 == PutOpt(d2, "max_pages", a.max_pages)
                d4 == PutOpt(d3, "same_domain_only", a.same_domain_only)
            IN Send(Post(client, "/crawl", d4))
    ELSE
        Raise("ValueError",
              <<"Invalid extraction_mode: ", a.extraction_mode, ". Must be '", "ai",
                "' or '", "markdown", "'">>)

\* A fetch that asks by posting the request id to the crawl endpoint.
client_smartcrawler_fetch_results_Post(client, a) ==
    Send(Post(client, "/crawl", "request_id" :> a.request_id))

\* ScapeGraphClient.smartcrawler_fetch_results, up to the request
client_smartcrawler_fetch_results(client, a) ==
    Send([method |-> "GET", url |-> T(<<BASE_URL, "/crawl/">>) \o a.request_id.str,
          headers |-> client.headers, json |-> None, timeout |-> client.timeout])

(***************************************************************************)
(* The upstream's answer and what each client method makes of it.          *)
(* A response is [kind |-> "response", status, text], or the transport     *)
(* fails: [kind |-> "timeout"], [kind |-> "connect"].                      *)
(***************************************************************************)
Tools ==
    {"markdownify", "smartscraper", "searchscraper", "smartcrawler_initiate",
     "smartcrawler_fetch_results", "scrape", "sitemap", "agentic_scrapper"}

\* The methods that end in response.raise_for_status()
RaiseForStatusTools == {"scrape", "sitemap", "agentic_scrapper"}

\* A decoding that keeps only the status of an answer that has one.
response_json_StatusOnly(resp) ==
    LET r == json_loads(resp.text) IN
    IF ~r.ok THEN [kind |-> "raise", exc |-> r.exc]
    ELSE IF IsDict(r.val) /\ "status" \in DOMAIN r.val.dict
    THEN [kind |-> "return", value |-> PyDict("status" :> r.val.dict["status"])]
    ELSE [kind |-> "return", value |-> r.val]

\* response.json()
response_json(resp) ==
    LET r == json_loads(resp.text) IN
    IF r.ok THEN [kind |-> "return", value |-> r.val]
    ELSE [kind |-> "raise", exc |-> r.exc]

\* if response.status_code != 200: raise Exception(f"Error {status}: {text}")
check_status_200(resp) ==
    IF resp.status # 200 THEN
        [kind |-> "raise",
         exc |-> Exc("Exception",
                     T(<<"Error ", ToString(resp.status), ": ">>) \o resp.text)]
    ELSE response_json(resp)

ReasonPhrase(status) ==
    CASE status = 200 -> "OK"
      [] status = 201 -> "Created"
      [] status = 404 -> "Not Found"
      [] status = 500 -> "Internal Server Error"
      [] OTHER -> ""

\* response.raise_for_status() (httpx), then response.json()
raise_for_status(request, resp) ==
    IF resp.status \in 200..299 THEN response_json(resp)
    ELSE
        [kind |-> "raise",
         exc |-> Exc("HTTPStatusError",
                     T(<<IF resp.status >= 500 THEN "Server error '"
                         ELSE "Client error '",
                         ToString(resp.status), " ", ReasonPhrase(resp.status),
                         "' for url '">>)
                     \o request.url
                     \o T(<<"'\nFor more information check: ",
                            "https://developer.mozilla.org/en-US/docs/Web/HTTP/Status/",
                            ToString(resp.status)>>))]

\* The rest of a client method, from the answer to its request on.
Receive(tool, request, resp) ==
    IF resp.kind = "timeout" THEN Raise("ReadTimeout", <<"The read operation timed out">>)
    ELSE IF resp.kind = "connect" THEN
        Raise("ConnectError", <<"All connection attempts failed">>)
    ELSE IF tool \in RaiseForStatusTools THEN raise_for_status(request, resp)
    ELSE check_status_200(resp)

(***************************************************************************)
(* The tool boundary: each handler's except clauses.                       *)
(***************************************************************************)
ErrorEnvelope(text) == PyDict("error" :> PyStr(text))

Return(value) == [kind |-> "return", value |-> value]

Handles(tool) ==
    IF tool \in {"scrape", "sitemap"} THEN {"HTTPError", "ValueError"}
    ELSE IF tool = "agentic_scrapper" THEN {"TimeoutException", "HTTPError", "ValueError"}
    ELSE {"Exception"}

\* What the handler's try statement makes of an exception raised in its body.
Boundary(tool, e) ==
    IF Bases(e.cls) \cap Handles(tool) = {} THEN [kind |-> "raise", exc |-> e]
    ELSE IF tool = "agentic_scrapper" /\ "TimeoutException" \in Bases(e.cls) THEN
        Return(ErrorEnvelope(T(<<"Request timed out: ">>) \o e.msg))
    ELSE Return(ErrorEnvelope(e.msg))

(***************************************************************************)
(* Parameter normalization in the handlers.                                *)
(***************************************************************************)
\* A normalization that takes an undecodable string for the empty schema.
normalize_schema_Lenient(output_schema) ==
    IF output_schema # None /\ IsDict(output_schema[1]) THEN
        [kind |-> "ok", value |-> output_schema]
    ELSE IF output_schema # None /\ IsStr(output_schema[1]) THEN
        LET r == json_loads(output_schema[1].str) IN
        IF r.ok /\ IsDict(r.val) THEN [kind |-> "ok", value |-> Some(r.val)]
        ELSE [kind |-> "ok", value |-> Some(PyDict(EmptyDict))]
    ELSE [kind |-> "ok", value |-> None]

\* output_schema: a dict is used as it is, a str is decoded and must be a
\* JSON object.
normalize_schema(output_schema) ==
    IF output_schema # None /\ IsDict(output_schema[1]) THEN
        [kind |-> "ok", value |-> output_schema]
    ELSE IF output_schema # None /\ IsStr(output_schema[1]) THEN
        LET r == json_loads(output_schema[1].str) IN
        IF r.ok THEN
            IF IsDict(r.val) THEN [kind |-> "ok", value |-> Some(r.val)]
            ELSE Return(ErrorEnvelope(T(<<"output_schema", " must be a JSON object">>)))
        ELSE IF "JSONDecodeError" \in Bases(r.exc.cls) THEN
            Return(ErrorEnvelope(T(<<"Invalid JSON for ", "output_schema", ": ">>)
                                 \o r.exc.msg))
        ELSE [kind |-> "raise", exc |-> r.exc]
    ELSE [kind |-> "ok", value |-> None]

\* A required injection that resets the field whether or not it is there.
ensure_required_Overwrite(schema) ==
    IF schema # None THEN
        Some(PyDict(("required" :> PyList(<< >>)) @@ schema[1].dict))
    ELSE schema

\* if "required" not in normalized_schema: normalized_schema["required"] = []
ensure_required(schema) ==
    IF schema # None /\ "required" \notin DOMAIN schema[1].dict THEN
        Some(PyDict(("required" :> PyList(<< >>)) @@ schema[1].dict))
    ELSE schema

\* steps: a list is used as it is, a str that decodes to a list is that list,
\* any other str is wrapped.
normalize_steps(steps) ==
    IF steps # None /\ IsList(steps[1]) THEN [kind |-> "ok", value |-> steps]
    ELSE IF steps # None /\ IsStr(steps[1]) THEN
        LET r == json_loads(steps[1].str) IN
        IF ~r.ok /\ "JSONDecodeError" \notin Bases(r.exc.cls) THEN
            [kind |-> "raise", exc |-> r.exc]
        ELSE IF r.ok /\ IsList(r.val) THEN [kind |-> "ok", value |-> Some(r.val)]
        ELSE [kind |-> "ok", value |-> Some(PyList(<<steps[1]>>))]
    ELSE [kind |-> "ok", value |-> None]

(***************************************************************************)
(* The handlers, up to the outbound request.  Each yields                  *)
(*   log    : the steps taken, in order                                    *)
(*   key    : the credential resolved (None if none)                       *)
(*   client : whether a ScapeGraphClient was constructed                   *)
(*   out    : Send(request), Return(value) or an exception leaving the     *)
(*            handler.                                                     *)
(* Seven handlers are one try statement: get_api_key(ctx), then            *)
(* ScapeGraphClient(api_key), then the body, under the except clauses.     *)
(***************************************************************************)
\* get_api_key raised: what the handler's try statement makes of it.
NoKey(tool, k) ==
    [log |-> k.consulted, key |-> None, client |-> FALSE,
     out |-> Boundary(tool, k.exc[1])]

\* The credential resolved, the client constructed, and the rest of the try
\* body ran: it took the steps b.log and ended in b.out.
WithClient(tool, k, b) ==
    [log |-> k.consulted \o <<"client">> \o b.log, key |-> k.key, client |-> TRUE,
     out |-> IF b.out.kind = "raise" THEN Boundary(tool, b.out.exc) ELSE b.out]

Called(out) == [log |-> <<"call">>, out |-> out]

markdownify(a, ctx) ==
    LET k == get_api_key(ctx) IN
    IF ~k.ok THEN NoKey("markdownify", k)
    ELSE WithClient("markdownify", k,
                    Called(client_markdownify(NewClient(k.key[1]), a)))

smartscraper(a, ctx) ==
    LET k == get_api_key(ctx) IN
    IF ~k.ok THEN NoKey("smartscraper", k)
    ELSE
        LET n == normalize_schema(a.output_schema) IN
        IF n.kind = "ok" THEN
            WithClient("smartscraper", k,
                [log |-> <<"normalize_schema", "call">>,
                 out |-> client_smartscraper(
                            NewClient(k.key[1]),
                            [a EXCEPT !.output_schema = ensure_required(n.value)])])
        ELSE WithClient("smartscraper", k, [log |-> <<"normalize_schema">>, out |-> n])

searchscraper(a, ctx) ==
    LET k == get_api_key(ctx) IN
    IF ~k.ok THEN NoKey("searchscraper", k)
    ELSE WithClient("searchscraper", k,
                    Called(client_searchscraper(NewClient(k.key[1]), a)))

smartcrawler_initiate(a, ctx) ==
    LET k == get_api_key(ctx) IN
    IF ~k.ok THEN NoKey("smartcrawler_initiate", k)
    ELSE WithClient("smartcrawler_initiate", k,
                    Called(client_smartcrawler_initiate(NewClient(k.key[1]), a)))

smartcrawler_fetch_results(a, ctx) ==
    LET k == get_api_key(ctx) IN
    IF ~k.ok THEN NoKey("smartcrawler_fetch_results", k)
    ELSE WithClient("smartcrawler_fetch_results", k,
                    Called(client_smartcrawler_fetch_results(NewClient(k.key[1]), a)))

scrape(a, ctx) ==
    LET k == get_api_key(ctx) IN
    IF ~k.ok THEN NoKey("scrape", k)
    ELSE WithClient("scrape", k, Called(client_scrape(NewClient(k.key[1]), a)))

sitemap(a, ctx) ==
    LET k == get_api_key(ctx) IN
    IF ~k.ok THEN NoKey("sitemap", k)
    ELSE WithClient("sitemap", k, Called(client_sitemap(NewClient(k.key[1]), a)))

\* agentic_scrapper normalizes steps and output_schema before its try statement.
agentic_scrapper(a, ctx) ==
    LET st == normalize_steps(a.steps) IN
    IF st.kind # "ok" THEN
        [log |-> <<"normalize_steps">>, key |-> None, client |-> FALSE, out |-> st]
    ELSE
        LET n == normalize_schema(a.output_schema) IN
        IF n.kind # "ok" THEN
            [log |-> <<"normalize_steps", "normalize_schema">>, key |-> None,
             client |-> FALSE, out |-> n]
        ELSE
            LET k == get_api_key(ctx)
                t == IF ~k.ok THEN NoKey("agentic_scrapper", k)
                     ELSE WithClient("agentic_scrapper", k,
                            Called(client_agentic_scrapper(
                                NewClient(k.key[1]),
                                [a EXCEPT !.steps = st.value,
                                          !.output_schema = ensure_required(n.value)])))
            IN [t EXCEPT !.log = <<"normalize_steps", "normalize_schema">> \o t.log]

\* The tools whose normalization comes before the try statement, and so
\* before the credential is resolved.
NormalizesFirst(tool) == tool = "agentic_scrapper"

\* normalized_schema = output_schema binds a second name to the caller's
\* dict, so the assignment of "required" is made to the caller's object.  A
\* str is decoded into a new object, and steps are never written to.
SchemaAfter(output_schema) ==
    IF output_schema # None /\ IsDict(output_schema[1])
    THEN ensure_required(output_schema)
    ELSE output_schema

\* The argument objects of a call, as the handler leaves them to the caller.
ArgumentsAfter(tool, a, ctx) ==
    IF tool = "smartscraper" THEN
        IF get_api_key(ctx).ok
        THEN [a EXCEPT !.output_schema = SchemaAfter(a.output_schema)]
        ELSE a
    ELSE IF tool = "agentic_scrapper" THEN
        IF normalize_steps(a.steps).kind = "ok"
        THEN [a EXCEPT !.output_schema = SchemaAfter(a.output_schema)]
        ELSE a
    ELSE a

(***************************************************************************)
(* What callers and the environment can supply.                            *)
(***************************************************************************)
Opt(S) == {None} \cup {Some(v) : v \in S}

Supplied(a, names) == Cardinality({n \in names : a[n] # None})

HeaderKey == T(<<"key-from-header">>)

ConfigKey == T(<<"key-from-config">>)

Contexts ==
    [header : {[http |-> FALSE, x_api_key |-> None]}
              \cup [http : {TRUE}, x_api_key : Opt({<< >>, HeaderKey})],
     config : {[present |-> FALSE, scrapegraph_api_key |-> None]}
              \cup [present : {TRUE}, scrapegraph_api_key : {Some(<< >>), Some(ConfigKey)}]]

UrlValues ==
    {PyStr(T(<<"https://", "example.com">>)), PyStr(T(<<"http://", "example.com">>)),
     PyStr(T(<<"example.com">>))}

PromptValues == {PyStr(T(<<"Extract the title">>))}

BoolValues == {[bool |-> FALSE], [bool |-> TRUE]}

IntValues(S) == {[int |-> n] : n \in S}

SchemaObject == PyDict("type" :> PyStr(T(<<"object">>)))

SchemaObjectRequired ==
    PyDict("type" :> PyStr(T(<<"object">>))
           @@ "required" :> PyList(<<PyStr(T(<<"name">>))>>))

SchemaValues ==
    {SchemaObject, SchemaObjectRequired, PyStr(TextObject), PyStr(TextObjectRequired),
     PyStr(TextBroken), PyStr(TextList), PyStr(TextDeep)}

StepsValues ==
    {PyList(<<PyStr(T(<<"x">>))>>), PyStr(TextList), PyStr(TextPlain),
     PyStr(<<P("["), [n |-> 1], P("]")>>), PyStr(<< >>), PyStr(TextDeep)}

SmartscraperOptional ==
    {"website_url", "website_html", "website_markdown", "output_schema",
     "number_of_scrolls", "total_pages", "render_heavy_js", "stealth"}

MarkdownifyArgs == [website_url : UrlValues]

SmartscraperArgs ==
    {a \in [user_prompt : PromptValues,
            website_url : Opt(UrlValues),
            website_html : Opt({PyStr(T(<<"<h1>", "Title", "</h1>">>))}),
            website_markdown : Opt({PyStr(T(<<"# ", "Title">>))}),
            output_schema : Opt(SchemaValues),
            number_of_scrolls : Opt(IntValues({-1, 0, 50, 51})),
            total_pages : Opt(IntValues({0, 1, 100, 101})),
            render_heavy_js : Opt(BoolValues),
            stealth : Opt(BoolValues)] :
        Supplied(a, SmartscraperOptional) <= MaxOptional}

SearchscraperArgs ==
    {a \in [user_prompt : PromptValues,
            num_results : Opt(IntValues({0, 3})),
            number_of_scrolls : Opt(IntValues({0, 51}))] :
        Supplied(a, {"num_results", "number_of_scrolls"}) <= MaxOptional}

SmartcrawlerInitiateArgs ==
    {a \in [url : UrlValues,
            prompt : Opt({PyStr(<< >>)} \cup PromptValues),
            extraction_mode : {"ai", "markdown", "other", "AI"},
            depth : Opt(IntValues({2})),
            max_pages : Opt(IntValues({0, 5})),
            same_domain_only : Opt(BoolValues)] :
        Supplied(a, {"prompt", "depth", "max_pages", "same_domain_only"}) <= MaxOptional}

SmartcrawlerFetchResultsArgs ==
    [request_id : {PyStr(T(<<"job-1">>)), PyStr(T(<<"job-2">>))}]

ScrapeArgs == [website_url : UrlValues, render_heavy_js : Opt(BoolValues)]

SitemapArgs == [website_url : UrlValues]

AgenticScrapperArgs ==
    {a \in [url : UrlValues,
            user_prompt : Opt(PromptValues),
            output_schema : Opt(SchemaValues),
            steps : Opt(StepsValues),
            ai_extraction : Opt(BoolValues),
            persistent_session : Opt(BoolValues),
            timeout_seconds : Opt({30, 300})] :
        Supplied(a, {"user_prompt", "output_schema", "steps", "ai_extraction",
                     "persistent_session", "timeout_seconds"}) <= MaxOptional}

\* '{"result":"ok"}'
TextResult == <<P("{"), Q("result"), P(":"), Q("ok"), P("}")>>

TextExploded == T(<<"server exploded">>)

Responses ==
    {[kind |-> "response", status |-> 200, text |-> TextResult],
     [kind |-> "response", status |-> 200, text |-> TextExploded],
     [kind |-> "response", status |-> 200, text |-> TextDeep],
     [kind |-> "response", status |-> 201, text |-> TextResult],
     [kind |-> "response", status |-> 404, text |-> TextResult],
     [kind |-> "response", status |-> 500, text |-> TextExploded],
     [kind |-> "timeout", status |-> 0, text |-> << >>],
     [kind |-> "connect", status |-> 0, text |-> << >>]}

(***************************************************************************)
(* The server: one tool invocation at a time.                              *)
(***************************************************************************)
VARIABLES
    pc,        \* "idle", "wait" (request sent, no answer yet) or "done"
    req,       \* the invocation: [tool, args, ctx]
    log,       \* the steps the invocation has taken
    api_key,   \* the credential the invocation resolved
    sent,      \* the outbound requests the invocation has made
    response,  \* the upstream's answer
    result,    \* what the handler returned, or the exception that left it
    opened,    \* httpx clients constructed and not closed, process-wide
    jobs,      \* the upstream's crawl jobs: not this process's state
    passed     \* the caller's argument objects, as the invocation has left them

vars == <<pc, req, log, api_key, sent, response, result, opened, jobs, passed>>

NoRequest == [tool |-> "none", args |-> << >>, ctx |-> << >>]

\* The identifiers the upstream gives its crawl jobs.
JobIds == {PyStr(T(<<"job-1">>)), PyStr(T(<<"job-2">>))}

NoJobs == [id \in JobIds |-> "none"]

Pending == [kind |-> "pending"]

Init ==
    /\ pc = "idle"
    /\ req = NoRequest
    /\ log = << >>
    /\ api_key = None
    /\ sent = << >>
    /\ response = None
    /\ result = Pending
    /\ opened = 0
    /\ jobs = NoJobs
    /\ passed = NoRequest.args

\* The handler runs until it returns, raises or waits for the upstream.
Start(tool, a, ctx, o) ==
    /\ req' = [tool |-> tool, args |-> a, ctx |-> ctx]
    /\ log' = o.log
    /\ api_key' = o.key
    /\ opened' = IF o.client THEN opened + 1 ELSE opened
    /\ response' = None
    /\ jobs' = jobs
    /\ passed' = ArgumentsAfter(tool, a, ctx)
    /\ IF o.out.kind = "send"
       THEN /\ sent' = <<o.out.request>>
            /\ result' = Pending
            /\ pc' = "wait"
       ELSE /\ sent' = << >>
            /\ result' = o.out
            /\ pc' = "done"

CanInvoke == pc = "idle" /\ opened < MaxClients

Markdownify ==
    /\ CanInvoke
    /\ \E a \in MarkdownifyArgs, ctx \in Contexts :
        Start("markdownify", a, ctx, markdownify(a, ctx))

Smartscraper ==
    /\ CanInvoke
    /\ \E a \in SmartscraperArgs, ctx \in Contexts :
        Start("smartscraper", a, ctx, smartscraper(a, ctx))

Searchscraper ==
    /\ CanInvoke
    /\ \E a \in SearchscraperArgs, ctx \in Contexts :
        Start("searchscraper", a, ctx, searchscraper(a, ctx))

SmartcrawlerInitiate ==
    /\ CanInvoke
    /\ \E a \in SmartcrawlerInitiateArgs, ctx \in Contexts :
        Start("smartcrawler_initiate", a, ctx, smartcrawler_initiate(a, ctx))

SmartcrawlerFetchResults ==
    /\ CanInvoke
    /\ \E a \in SmartcrawlerFetchResultsArgs, ctx \in Contexts :
        Start("smartcrawler_fetch_results", a, ctx,
              smartcrawler_fetch_results(a, ctx))

Scrape ==
    /\ CanInvoke
    /\ \E a \in ScrapeArgs, ctx \in Contexts :
        Start("scrape", a, ctx, scrape(a, ctx))

Sitemap ==
    /\ CanInvoke
    /\ \E a \in SitemapArgs, ctx \in Contexts :
        Start("sitemap", a, ctx, sitemap(a, ctx))

AgenticScrapper ==
    /\ CanInvoke
    /\ \E a \in AgenticScrapperArgs, ctx \in Contexts :
        Start("agentic_scrapper", a, ctx, agentic_scrapper(a, ctx))

\* A handler that sends its request once more after a failed attempt.
UpstreamResponds_Retry ==
    /\ pc = "wait"
    /\ \E resp \in Responses :
        /\ response' = Some(resp)
        /\ IF resp.kind \in {"timeout", "connect"} /\ Len(sent) < 2
           THEN /\ sent' = Append(sent, sent[1])
                /\ result' = result
                /\ pc' = "wait"
           ELSE /\ sent' = sent
                /\ result' = LET r == Receive(req.tool, sent[1], resp) IN
                             IF r.kind = "raise" THEN Boundary(req.tool, r.exc) ELSE r
                /\ pc' = "done"
    /\ UNCHANGED <<req, log, api_key, opened, jobs, passed>>

\* The upstream answers (or the transport fails) and the handler finishes.
UpstreamResponds ==
    /\ pc = "wait"
    /\ \E resp \in Responses :
        /\ response' = Some(resp)
        /\ result' = LET r == Receive(req.tool, sent[1], resp) IN
                     IF r.kind = "raise" THEN Boundary(req.tool, r.exc) ELSE r
    /\ pc' = "done"
    /\ UNCHANGED <<req, log, api_key, sent, opened, jobs, passed>>

\* The invocation is over; the server is ready for the next one.
Finish ==
    /\ pc = "done"
    /\ pc' = "idle"
    /\ req' = NoRequest
    /\ log' = << >>
    /\ api_key' = None
    /\ sent' = << >>
    /\ response' = None
    /\ result' = Pending
    /\ passed' = NoRequest.args
    /\ UNCHANGED <<opened, jobs>>

Next ==
    \/ Markdownify
    \/ Smartscraper
    \/ Searchscraper
    \/ SmartcrawlerInitiate
    \/ SmartcrawlerFetchResults
    \/ Scrape
    \/ Sitemap
    \/ AgenticScrapper
    \/ UpstreamResponds
    \/ Finish

Spec == Init /\ [][Next]_vars

(***************************************************************************)
(* The server under concurrent callers (HTTP transport).  Each variable    *)
(* holds, per worker, what it holds for the single invocation above: pc[w] *)
(* is "idle", "resolved" (get_api_key returned, the client not yet built), *)
(* "wait" or "done"; opened stays process-wide.  A handler shares nothing  *)
(* with another: ctx, api_key and client are its parameters and locals.    *)
(***************************************************************************)
Workers == 1..MaxWorkers

Handler(tool, a, ctx) ==
    CASE tool = "markdownify" -> markdownify(a, ctx)
      [] tool = "smartscraper" -> smartscraper(a, ctx)
      [] tool = "searchscraper" -> searchscraper(a, ctx)
      [] tool = "smartcrawler_initiate" -> smartcrawler_initiate(a, ctx)
      [] tool = "smartcrawler_fetch_results" -> smartcrawler_fetch_results(a, ctx)
      [] tool = "scrape" -> scrape(a, ctx)
      [] tool = "sitemap" -> sitemap(a, ctx)
      [] tool = "agentic_scrapper" -> agentic_scrapper(a, ctx)

\* What concurrent callers invoke: one well-formed call of four of the tools.
ConcurrentCalls ==
    {[tool |-> "markdownify",
      args |-> [website_url |-> PyStr(T(<<"https://", "example.com">>))]],
     [tool |-> "smartscraper",
      args |-> [user_prompt |-> PyStr(T(<<"Extract the title">>)),
                website_url |-> Some(PyStr(T(<<"https://", "example.com">>))),
                website_html |-> None, website_markdown |-> None,
                output_schema |-> None, number_of_scrolls |-> None,
                total_pages |-> None, render_heavy_js |-> None, stealth |-> None]],
     [tool |-> "smartcrawler_fetch_results",
      args |-> [request_id |-> PyStr(T(<<"job-1">>))]],
     [tool |-> "agentic_scrapper",
      args |-> [url |-> PyStr(T(<<"https://", "example.com">>)),
                user_prompt |-> None, output_schema |-> None, steps |-> None,
                ai_extraction |-> None, persistent_session |-> None,
                timeout_seconds |-> None]]}

\* A caller with a key in its header, one with a key in its session
\* configuration, one with neither.
ConcurrentContexts ==
    {[header |-> [http |-> TRUE, x_api_key |-> Some(HeaderKey)],
      config |-> [present |-> FALSE, scrapegraph_api_key |-> None]],
     [header |-> [http |-> FALSE, x_api_key |-> None],
      config |-> [present |-> TRUE, scrapegraph_api_key |-> Some(ConfigKey)]],
     [header |-> [http |-> TRUE, x_api_key |-> None],
      config |-> [present |-> FALSE, scrapegraph_api_key |-> None]]}

ConcurrentResponses ==
    {[kind |-> "response", status |-> 200, text |-> TextResult],
     [kind |-> "timeout", status |-> 0, text |-> << >>]}

\* The steps of a log that come before the client is constructed.
BeforeClient(l) ==
    IF \E i \in DOMAIN l : l[i] = "client"
    THEN SubSeq(l, 1, (CHOOSE i \in DOMAIN l : l[i] = "client") - 1)
    ELSE l

ConcurrentInit ==
    /\ pc = [w \in Workers |-> "idle"]
    /\ req = [w \in Workers |-> NoRequest]
    /\ log = [w \in Workers |-> << >>]
    /\ api_key = [w \in Workers |-> None]
    /\ sent = [w \in Workers |-> << >>]
    /\ response = [w \in Workers |-> None]
    /\ result = [w \in Workers |-> Pending]
    /\ opened = 0
    /\ jobs = NoJobs
    /\ passed = [w \in Workers |-> NoRequest.args]

\* A client that is handed a key some other invocation in flight resolved.
OwnKey_Shared(w) ==
    IF \E v \in Workers : v # w /\ api_key[v] # None
    THEN api_key[CHOOSE v \in Workers : v # w /\ api_key[v] # None]
    ELSE api_key[w]

\* client = ScapeGraphClient(api_key): api_key is the handler's own local.
OwnKey(w) == api_key[w]

\* Worker w takes a call and runs its handler up to the return of get_api_key.
ConcurrentResolve(w) ==
    /\ pc[w] = "idle"
    /\ opened + Cardinality({v \in Workers : pc[v] = "resolved"}) < MaxClients
    /\ \E c \in ConcurrentCalls, ctx \in ConcurrentContexts :
        LET o == Handler(c.tool, c.args, ctx) IN
        /\ req' = [req EXCEPT ![w] = [tool |-> c.tool, args |-> c.args, ctx |-> ctx]]
        /\ log' = [log EXCEPT ![w] = BeforeClient(o.log)]
        /\ api_key' = [api_key EXCEPT ![w] = o.key]
        /\ passed' = [passed EXCEPT ![w] =
                        IF o.client /\ ~NormalizesFirst(c.tool) THEN c.args
                        ELSE ArgumentsAfter(c.tool, c.args, ctx)]
        /\ IF o.client
           THEN /\ pc' = [pc EXCEPT ![w] = "resolved"]
                /\ result' = result
           ELSE /\ pc' = [pc EXCEPT ![w] = "done"]
                /\ result' = [result EXCEPT ![w] = o.out]
    /\ UNCHANGED <<sent, response, opened, jobs>>

\* Worker w builds its client from the key it resolved and runs the client
\* method up to the outbound request.
ConcurrentCall(w) ==
    /\ pc[w] = "resolved"
    /\ LET o == Handler(req[w].tool, req[w].args, req[w].ctx) IN
        /\ log' = [log EXCEPT ![w] = o.log]
        /\ opened' = opened + 1
        /\ passed' = [passed EXCEPT ![w] =
                        ArgumentsAfter(req[w].tool, req[w].args, req[w].ctx)]
        /\ IF o.out.kind = "send"
           THEN /\ sent' = [sent EXCEPT ![w] =
                        <<[o.out.request EXCEPT
                            !.headers = NewClient(OwnKey(w)[1]).headers]>>]
                /\ result' = result
                /\ pc' = [pc EXCEPT ![w] = "wait"]
           ELSE /\ sent' = sent
                /\ result' = [result EXCEPT ![w] = o.out]
                /\ pc' = [pc EXCEPT ![w] = "done"]
    /\ UNCHANGED <<req, api_key, response, jobs>>

\* The upstream answers worker w's request (or the transport fails).
ConcurrentRespond(w) ==
    /\ pc[w] = "wait"
    /\ \E resp \in ConcurrentResponses :
        /\ response' = [response EXCEPT ![w] = Some(resp)]
        /\ result' = [result EXCEPT ![w] =
                        LET r == Receive(req[w].tool, sent[w][1], resp) IN
                        IF r.kind = "raise" THEN Boundary(req[w].tool, r.exc) ELSE r]
    /\ pc' = [pc EXCEPT ![w] = "done"]
    /\ UNCHANGED <<req, log, api_key, sent, opened, jobs, passed>>

\* Worker w's invocation is over.
ConcurrentFinish(w) ==
    /\ pc[w] = "done"
    /\ pc' = [pc EXCEPT ![w] = "idle"]
    /\ req' = [req EXCEPT ![w] = NoRequest]
    /\ log' = [log EXCEPT ![w] = << >>]
    /\ api_key' = [api_key EXCEPT ![w] = None]
    /\ sent' = [sent EXCEPT ![w] = << >>]
    /\ response' = [response EXCEPT ![w] = None]
    /\ result' = [result EXCEPT ![w] = Pending]
    /\ passed' = [passed EXCEPT ![w] = NoRequest.args]
    /\ UNCHANGED <<opened, jobs>>

ConcurrentNext ==
    \E w \in Workers :
        \/ ConcurrentResolve(w)
        \/ ConcurrentCall(w)
        \/ ConcurrentRespond(w)
        \/ ConcurrentFinish(w)

ConcurrentSpec == ConcurrentInit /\ [][ConcurrentNext]_vars

(***************************************************************************)
(* The initiate-then-poll sequence against the upstream's crawl jobs.  The *)
(* upstream is the environment: as the docstrings of smartcrawler_initiate *)
(* and smartcrawler_fetch_results describe it, POST /crawl starts a job    *)
(* and answers with its request id, GET /crawl/{id} answers with the job's *)
(* status ("processing", "completed", "failed") and, once completed, the   *)
(* results, and a job moves on by itself.  It reacts to the request it     *)
(* receives, whichever tool sent it.                                       *)
(***************************************************************************)
\* '{"request_id":"<id>"}'
InitiatedText(id) ==
    <<P("{"), Q("request_id"), P(":"), Q(id.str[1].w), P("}")>>

\* '{"status":"<status>"}'
StatusText(status) == <<P("{"), Q("status"), P(":"), Q(status), P("}")>>

\* '{"status":"completed","results":"ok"}'
CompletedText ==
    <<P("{"), Q("status"), P(":"), Q("completed"), P(","),
      Q("results"), P(":"), Q("ok"), P("}")>>

Answer(status, text) == [kind |-> "response", status |-> status, text |-> text]

\* What the upstream may do with a request: the answers it may give, each with
\* the jobs it then holds.
RemoteAnswers(request, js) ==
    IF request.method = "POST" /\ request.url = T(<<BASE_URL, "/crawl">>) THEN
        IF \E id \in JobIds : js[id] = "none"
        THEN {[resp |-> Answer(200, InitiatedText(id)),
               jobs |-> [js EXCEPT ![id] = "processing"]] :
                    id \in {i \in JobIds : js[i] = "none"}}
        ELSE {[resp |-> Answer(500, TextExploded), jobs |-> js]}
    ELSE IF request.method = "GET"
            /\ \E id \in JobIds : request.url = T(<<BASE_URL, "/crawl/">>) \o id.str
    THEN LET id == CHOOSE i \in JobIds :
                        request.url = T(<<BASE_URL, "/crawl/">>) \o i.str
         IN {[resp |-> CASE js[id] = "none" -> Answer(404, T(<<"Not Found">>))
                         [] js[id] = "completed" -> Answer(200, CompletedText)
                         [] OTHER -> Answer(200, StatusText(js[id])),
              jobs |-> js]}
    ELSE {[resp |-> Answer(404, T(<<"Not Found">>)), jobs |-> js]}

\* The crawls a caller starts: one in markdown mode, one in ai mode.
CrawlArgs ==
    {a \in SmartcrawlerInitiateArgs :
        /\ a.url = PyStr(T(<<"https://", "example.com">>))
        /\ a.depth = None /\ a.max_pages = None /\ a.same_domain_only = None
        /\ \/ a.extraction_mode = "markdown" /\ a.prompt = None
           \/ a.extraction_mode = "ai" /\ a.prompt = Some(PyStr(T(<<"Extract the title">>)))}

\* A caller with a key in its header, and one without a credential.
CrawlContexts ==
    {ctx \in Contexts :
        /\ ~ctx.config.present
        /\ ctx.header.http
        /\ ctx.header.x_api_key \in {None, Some(HeaderKey)}}

CanCall == pc = "idle" /\ opened < MaxCalls

CrawlInitiate ==
    /\ CanCall
    /\ \E a \in CrawlArgs, ctx \in CrawlContexts :
        Start("smartcrawler_initiate", a, ctx, smartcrawler_initiate(a, ctx))

CrawlPoll ==
    /\ CanCall
    /\ \E a \in SmartcrawlerFetchResultsArgs, ctx \in CrawlContexts :
        Start("smartcrawler_fetch_results", a, ctx, smartcrawler_fetch_results(a, ctx))

\* The upstream answers the request in flight and the handler finishes.
RemoteResponds ==
    /\ pc = "wait"
    /\ \E ans \in RemoteAnswers(sent[1], jobs) :
        /\ response' = Some(ans.resp)
        /\ jobs' = ans.jobs
        /\ result' = LET r == Receive(req.tool, sent[1], ans.resp) IN
                     IF r.kind = "raise" THEN Boundary(req.tool, r.exc) ELSE r
    /\ pc' = "done"
    /\ UNCHANGED <<req, log, api_key, sent, opened, passed>>

\* A job being processed ends, at any moment.
JobEnds ==
    /\ \E id \in JobIds, status \in {"completed", "failed"} :
        /\ jobs[id] = "processing"
        /\ jobs' = [jobs EXCEPT ![id] = status]
    /\ UNCHANGED <<pc, req, log, api_key, sent, response, result, opened, passed>>

CrawlNext ==
    \/ CrawlInitiate
    \/ CrawlPoll
    \/ RemoteResponds
    \/ JobEnds
    \/ Finish

CrawlSpec == Init /\ [][CrawlNext]_vars

(***************************************************************************)
(* Vocabulary of the properties.                                           *)
(***************************************************************************)
Invoked == pc # "idle"

Done == pc = "done"

Reached(step) == \E i \in DOMAIN log : log[i] = step

Word(s) == [w |-> s]

\* The handler returned a dict with an "error" key.
HasErrorKey ==
    /\ result.kind = "return"
    /\ IsDict(result.value)
    /\ "error" \in DOMAIN result.value.dict

ErrorText == result.value.dict["error"].str

HeaderNonEmpty ==
    /\ req.ctx.header.http
    /\ req.ctx.header.x_api_key # None
    /\ req.ctx.header.x_api_key[1] # << >>

ConfigNonEmpty ==
    /\ req.ctx.config.present
    /\ req.ctx.config.scrapegraph_api_key # None
    /\ req.ctx.config.scrapegraph_api_key[1] # << >>

NoCredential == ~HeaderNonEmpty /\ ~ConfigNonEmpty

UrlParam ==
    IF req.tool \in {"markdownify", "smartscraper", "scrape", "sitemap"}
    THEN "website_url" ELSE "url"

\* The invocation is of a URL-accepting tool and was given a URL.
UrlSupplied ==
    /\ req.tool \in {"markdownify", "smartscraper", "scrape", "sitemap",
                     "agentic_scrapper", "smartcrawler_initiate"}
    /\ IF req.tool = "smartscraper" THEN req.args.website_url # None ELSE TRUE

UrlArg == IF req.tool = "smartscraper" THEN req.args.website_url[1].str
          ELSE req.args[UrlParam].str

HasProtocol(url) == StartsWith(url, Word("http://")) \/ StartsWith(url, Word("https://"))

Payload == sent[1].json[1]

SourceKeys == {"website_url", "website_html", "website_markdown"}

SourcesSupplied == {k \in SourceKeys : req.args[k] # None}

(***************************************************************************)
(* C1.  Every URL-accepting tool given a URL that does not begin with      *)
(* http:// or https:// makes no network call, and a call that got as far   *)
(* as the client method returns a validation error naming the URL          *)
(* parameter.                                                              *)
(***************************************************************************)
C1_BadUrlRejected ==
    (Invoked /\ UrlSupplied /\ ~HasProtocol(UrlArg)) =>
        /\ sent = << >>
        /\ (Done /\ Reached("call")) =>
                (HasErrorKey /\ Contains(ErrorText, Word(UrlParam)))

(***************************************************************************)
(* C2.  Every tool, on every kind of failure (validation, credential,      *)
(* non-success status, timeout, connection failure, any other fault),      *)
(* returns a response with an "error" key; no exception leaves the tool.   *)
(***************************************************************************)
Failure ==
    \/ sent = << >>
    \/ /\ response # None
       /\ \/ response[1].kind \in {"timeout", "connect"}
          \/ response[1].status \notin 200..299
          \/ ~json_loads(response[1].text).ok

C2_NoExceptionEscapes ==
    Done => /\ result.kind = "return"
            /\ Failure => HasErrorKey

(***************************************************************************)
(* C3.  For every tool, when the upstream answers with a non-success       *)
(* status, the error text contains the status code and the response body   *)
(* verbatim.                                                               *)
(***************************************************************************)
C3_StatusAndBodyInError ==
    (Done /\ response # None /\ response[1].kind = "response"
          /\ response[1].status \notin 200..299) =>
        /\ HasErrorKey
        /\ Contains(ErrorText, Word(ToString(response[1].status)))
        /\ IsInfix(response[1].text, ErrorText)

(***************************************************************************)
(* C4.  Credential resolution returns the header value whenever the header *)
(* is present and non-empty, even if the session configuration holds a key *)
(* too, and then does not consult the session configuration; otherwise it  *)
(* returns the session configuration's key when that is present and        *)
(* non-empty.                                                              *)
(***************************************************************************)
C4_HeaderWins ==
    (Invoked /\ Reached("header")) =>
        IF HeaderNonEmpty
        THEN /\ api_key = req.ctx.header.x_api_key
             /\ ~Reached("session_config")
        ELSE ConfigNonEmpty =>
                /\ api_key = req.ctx.config.scrapegraph_api_key
                /\ Reached("session_config")

\* Both sources hold a key and the header's was taken.
C4_Witness ==
    /\ Invoked /\ Reached("header")
    /\ HeaderNonEmpty /\ ConfigNonEmpty
    /\ api_key = Some(HeaderKey)
    /\ sent # << >>
    /\ sent[1].headers["SGAI-APIKEY"] = HeaderKey

(***************************************************************************)
(* C5.  For every tool, when neither the header nor the session            *)
(* configuration yields a non-empty credential, the tool returns an error  *)
(* whose text names both configuration paths (X-API-Key and                *)
(* scrapegraphApiKey), and no outbound request is made.                    *)
(***************************************************************************)
C5_NoCredentialError ==
    (Invoked /\ NoCredential) =>
        /\ sent = << >>
        /\ Done
        /\ HasErrorKey
        /\ Contains(ErrorText, Word("X-API-Key"))
        /\ Contains(ErrorText, Word("scrapegraphApiKey"))

(***************************************************************************)
(* C6.  In every tool the credential check comes first: with no credential *)
(* available, what the call returns is the credential error, not the       *)
(* outcome of any parameter normalization or validation, whatever the      *)
(* other parameters are (a malformed output_schema included).              *)
(***************************************************************************)
C6_CredentialFirst ==
    (Done /\ NoCredential /\ result.kind = "return") =>
        result = Return(ErrorEnvelope(NoKeyMessage))

(***************************************************************************)
(* C7.  smartscraper range checks: number_of_scrolls outside 0..50 or      *)
(* total_pages outside 1..100 makes no network call, and a call that got   *)
(* as far as the client method with a content source returns a validation  *)
(* error naming the parameter; a value that is forwarded is forwarded as   *)
(* given.                                                                  *)
(***************************************************************************)
ScrollsOutOfRange ==
    /\ req.args.number_of_scrolls # None
    /\ req.args.number_of_scrolls[1].int \notin 0..50

PagesOutOfRange ==
    /\ req.args.total_pages # None
    /\ req.args.total_pages[1].int \notin 1..100

C7_RangeChecked ==
    (Invoked /\ req.tool = "smartscraper") =>
        /\ ScrollsOutOfRange =>
            /\ sent = << >>
            /\ (Done /\ Reached("call") /\ SourcesSupplied # {}) =>
                    (HasErrorKey /\ Contains(ErrorText, Word("number_of_scrolls")))
        /\ (PagesOutOfRange /\ ~ScrollsOutOfRange) =>
            /\ sent = << >>
            /\ (Done /\ Reached("call") /\ SourcesSupplied # {}) =>
                    (HasErrorKey /\ Contains(ErrorText, Word("total_pages")))
        /\ (sent # << >> /\ req.args.number_of_scrolls # None) =>
            /\ "number_of_scrolls" \in DOMAIN Payload
            /\ Payload["number_of_scrolls"] = req.args.number_of_scrolls[1]
        /\ (sent # << >> /\ req.args.total_pages # None) =>
            /\ "total_pages" \in DOMAIN Payload
            /\ Payload["total_pages"] = req.args.total_pages[1]

(***************************************************************************)
(* C8.  smartscraper called with none of website_url, website_html and     *)
(* website_markdown sends nothing and returns an error; once the call has  *)
(* a credential, a client and a normalized output_schema, so that it gets  *)
(* to choosing the source, the error states that one of the three is       *)
(* required.                                                               *)
(***************************************************************************)
C8_NoSourceRejected ==
    (Invoked /\ req.tool = "smartscraper" /\ SourcesSupplied = {}) =>
        /\ sent = << >>
        /\ Done
        /\ HasErrorKey
        /\ Reached("call") =>
            /\ StartsWith(ErrorText, Word("Must provide one of: "))
            /\ \A k \in SourceKeys : Contains(ErrorText, Word(k))

\* A call with a credential and no source, rejected by the client method.
C8_Witness ==
    /\ Done /\ req.tool = "smartscraper" /\ SourcesSupplied = {}
    /\ ~NoCredential
    /\ Reached("call")
    /\ HasErrorKey
    /\ Contains(ErrorText, Word("website_markdown"))

(***************************************************************************)
(* C9.  smartscraper called with exactly one of website_url, website_html  *)
(* and website_markdown, once it gets to the client method, builds a       *)
(* request whose payload holds exactly that source key, with the supplied  *)
(* value, and neither of the other two.                                    *)
(***************************************************************************)
C9_ExactlyThatSource ==
    (Invoked /\ req.tool = "smartscraper" /\ Cardinality(SourcesSupplied) = 1) =>
        /\ Reached("call") => sent # << >>
        /\ sent # << >> =>
            /\ DOMAIN Payload \cap SourceKeys = SourcesSupplied
            /\ \A k \in SourcesSupplied : Payload[k] = req.args[k][1]

\* Only website_html was supplied and the request carries it.
C9_Witness ==
    /\ Invoked /\ req.tool = "smartscraper"
    /\ SourcesSupplied = {"website_html"}
    /\ sent # << >>
    /\ "website_html" \in DOMAIN Payload

(***************************************************************************)
(* C10.  smartscraper called with more than one of website_url,            *)
(* website_html and website_markdown is a caller error: it returns an      *)
(* error and sends no request upstream.                                    *)
(***************************************************************************)
C10_SeveralSourcesRejected ==
    (Invoked /\ req.tool = "smartscraper" /\ Cardinality(SourcesSupplied) > 1) =>
        /\ sent = << >>
        /\ Done
        /\ HasErrorKey

(***************************************************************************)
(* Vocabulary of the normalization properties.                             *)
(***************************************************************************)
SchemaTools == {"smartscraper", "agentic_scrapper"}

SchemaArg == req.args.output_schema

\* What the handler of the current invocation does with other arguments.
Rerun(a) ==
    IF req.tool = "smartscraper" THEN smartscraper(a, req.ctx)
    ELSE agentic_scrapper(a, req.ctx)

(***************************************************************************)
(* C11.  output_schema normalization in smartscraper and agentic_scrapper, *)
(* seen in the request that goes out: an object that has a required field  *)
(* is forwarded unchanged; an object without one is forwarded with         *)
(* required: [] added and nothing else changed; normalizing the forwarded  *)
(* schema again changes nothing; and a JSON string that decodes to an      *)
(* object produces the same request as that object passed natively.        *)
(***************************************************************************)
C11_SchemaNormalization ==
    (Invoked /\ req.tool \in SchemaTools /\ sent # << >> /\ SchemaArg # None) =>
        /\ "output_schema" \in DOMAIN Payload
        /\ LET given == SchemaArg[1]
               fwd   == Payload["output_schema"]
           IN /\ IsDict(fwd)
              /\ (IsDict(given) /\ "required" \in DOMAIN given.dict) => fwd = given
              /\ (IsDict(given) /\ "required" \notin DOMAIN given.dict) =>
                    /\ DOMAIN fwd.dict = DOMAIN given.dict \cup {"required"}
                    /\ fwd.dict["required"] = PyList(<< >>)
                    /\ \A k \in DOMAIN given.dict : fwd.dict[k] = given.dict[k]
              /\ Rerun([req.args EXCEPT !.output_schema = Some(fwd)]).out
                    = Send(sent[1])
              /\ IsStr(given) =>
                    /\ json_loads(given.str).ok
                    /\ Rerun([req.args EXCEPT
                                !.output_schema = Some(json_loads(given.str).val)]).out
                        = Send(sent[1])

\* A schema given as a JSON string without a required field went out as the
\* object with required: [] added.
C11_Witness ==
    /\ Invoked /\ req.tool = "agentic_scrapper" /\ sent # << >>
    /\ SchemaArg = Some(PyStr(TextObject))
    /\ Payload["output_schema"]
        = PyDict("type" :> PyStr(T(<<"object">>)) @@ "required" :> PyList(<< >>))

(***************************************************************************)
(* C12.  In smartscraper and agentic_scrapper, once the call gets to       *)
(* normalizing output_schema: a string that is not valid JSON ends the     *)
(* call with an error that reports invalid JSON and names output_schema; a *)
(* string that decodes to something other than an object ends it with the  *)
(* error "output_schema must be a JSON object"; in both cases nothing is   *)
(* sent upstream.                                                          *)
(***************************************************************************)
C12_BadSchemaRejected ==
    (Invoked /\ req.tool \in SchemaTools /\ SchemaArg # None /\ IsStr(SchemaArg[1])
             /\ Reached("normalize_schema")) =>
        LET r == json_loads(SchemaArg[1].str) IN
        /\ ~r.ok =>
            /\ sent = << >>
            /\ Done
            /\ HasErrorKey
            /\ StartsWith(ErrorText, Word("Invalid JSON for "))
            /\ Contains(ErrorText, Word("output_schema"))
        /\ (r.ok /\ ~IsDict(r.val)) =>
            /\ sent = << >>
            /\ Done
            /\ HasErrorKey
            /\ ErrorText = T(<<"output_schema", " must be a JSON object">>)

(***************************************************************************)
(* C13.  agentic_scrapper steps normalization never fails, and the steps   *)
(* it forwards are: the list itself when a native list was given; the      *)
(* decoded list when a string that JSON-decodes to a list was given; the   *)
(* one-element list holding the original string when the string does not   *)
(* decode or decodes to something that is not a list.                      *)
(***************************************************************************)
StepsArg == req.args.steps

C13_StepsNormalized ==
    (Invoked /\ req.tool = "agentic_scrapper" /\ StepsArg # None) =>
        /\ Reached("normalize_schema")
        /\ sent # << >> =>
            /\ "steps" \in DOMAIN Payload
            /\ LET given == StepsArg[1]
                   fwd   == Payload["steps"]
               IN IF IsList(given) THEN fwd = given
                  ELSE LET r == json_loads(given.str) IN
                       IF r.ok /\ IsList(r.val) THEN fwd = r.val
                       ELSE fwd = PyList(<<given>>)

(***************************************************************************)
(* C14.  Whatever steps value the caller gave agentic_scrapper, the        *)
(* request that goes out carries steps, and they are a list whose every    *)
(* element is a string.                                                    *)
(***************************************************************************)
C14_StepsAreStrings ==
    (Invoked /\ req.tool = "agentic_scrapper" /\ StepsArg # None /\ sent # << >>) =>
        /\ "steps" \in DOMAIN Payload
        /\ IsList(Payload["steps"])
        /\ \A i \in DOMAIN Payload["steps"].list : IsStr(Payload["steps"].list[i])

(***************************************************************************)
(* C15.  smartcrawler_initiate in extraction_mode "ai" without a prompt    *)
(* sends nothing and returns an error; once the call has a credential, so  *)
(* that it gets to the client method, the error says that the prompt is    *)
(* required in ai mode.                                                    *)
(***************************************************************************)
C15_AiNeedsPrompt ==
    (Invoked /\ req.tool = "smartcrawler_initiate" /\ req.args.extraction_mode = "ai"
             /\ req.args.prompt = None) =>
        /\ sent = << >>
        /\ Done
        /\ HasErrorKey
        /\ Reached("call") =>
            ErrorText = T(<<"prompt is required when extraction_mode is 'ai'">>)

\* A call in ai mode with a credential and no prompt, rejected by the client
\* method.
C15_Witness ==
    /\ Done /\ req.tool = "smartcrawler_initiate"
    /\ req.args.extraction_mode = "ai" /\ req.args.prompt = None
    /\ ~NoCredential
    /\ Reached("call")
    /\ HasErrorKey
    /\ Contains(ErrorText, Word("prompt is required when extraction_mode is 'ai'"))

(***************************************************************************)
(* C16.  smartcrawler_initiate in extraction_mode "markdown", with or      *)
(* without a prompt, builds and sends a request once it gets to the client *)
(* method; the payload holds markdown_only = true and no prompt.           *)
(***************************************************************************)
C16_MarkdownDropsPrompt ==
    (Invoked /\ req.tool = "smartcrawler_initiate"
             /\ req.args.extraction_mode = "markdown") =>
        /\ Reached("call") => sent # << >>
        /\ sent # << >> =>
            /\ "markdown_only" \in DOMAIN Payload
            /\ Payload["markdown_only"] = [bool |-> TRUE]
            /\ "prompt" \notin DOMAIN Payload
            /\ Payload["url"] = req.args.url

\* A markdown crawl was given a prompt and the request went out without it.
C16_Witness ==
    /\ Invoked /\ req.tool = "smartcrawler_initiate"
    /\ req.args.extraction_mode = "markdown"
    /\ req.args.prompt = Some(PyStr(T(<<"Extract the title">>)))
    /\ sent # << >>
    /\ DOMAIN Payload = {"url", "markdown_only"}

(***************************************************************************)
(* C17.  smartcrawler_initiate with an extraction_mode that is neither     *)
(* "ai" nor "markdown" (a different spelling such as "AI" included) sends  *)
(* nothing and returns an error; once the call gets to the client method   *)
(* the error quotes the value given and lists both recognized values.      *)
(***************************************************************************)
C17_UnknownModeRejected ==
    (Invoked /\ req.tool = "smartcrawler_initiate"
             /\ req.args.extraction_mode \notin {"ai", "markdown"}) =>
        /\ sent = << >>
        /\ Done
        /\ HasErrorKey
        /\ Reached("call") =>
            /\ StartsWith(ErrorText, Word("Invalid extraction_mode: "))
            /\ ErrorText[2] = Word(req.args.extraction_mode)
            /\ \A v \in {"ai", "markdown"} :
                    Contains(SubSeq(ErrorText, 3, Len(ErrorText)), Word(v))

\* A crawl in mode "AI" with a prompt and a credential, rejected by the client
\* method.
C17_Witness ==
    /\ Done /\ req.tool = "smartcrawler_initiate"
    /\ req.args.extraction_mode = "AI" /\ req.args.prompt # None
    /\ ~NoCredential
    /\ Reached("call")
    /\ HasErrorKey
    /\ Contains(ErrorText, Word("markdown"))

(***************************************************************************)
(* C18.  Validation is local.  An invocation that ended in a validation    *)
(* error (no content source, no prompt in ai mode, unrecognized            *)
(* extraction_mode, malformed or non-object output_schema) made no         *)
(* outbound request; and an invocation whose arguments have one of these   *)
(* defects never makes one.                                                *)
(***************************************************************************)
ValidationError ==
    /\ HasErrorKey
    /\ \/ StartsWith(ErrorText, Word("Must provide one of: "))
       \/ StartsWith(ErrorText, Word("prompt is required when extraction_mode is 'ai'"))
       \/ StartsWith(ErrorText, Word("Invalid extraction_mode: "))
       \/ StartsWith(ErrorText, Word("Invalid JSON for "))
       \/ ErrorText = T(<<"output_schema", " must be a JSON object">>)

InvalidArguments ==
    \/ req.tool = "smartscraper" /\ SourcesSupplied = {}
    \/ /\ req.tool = "smartcrawler_initiate"
       /\ \/ req.args.extraction_mode = "ai" /\ req.args.prompt = None
          \/ req.args.extraction_mode \notin {"ai", "markdown"}
    \/ /\ req.tool \in SchemaTools
       /\ SchemaArg # None
       /\ IsStr(SchemaArg[1])
       /\ LET r == json_loads(SchemaArg[1].str) IN ~r.ok \/ ~IsDict(r.val)

C18_ValidationIsLocal ==
    /\ (Done /\ ValidationError) => (sent = << >> /\ response = None)
    /\ (Invoked /\ InvalidArguments) => (sent = << >> /\ response = None)

\* An agentic_scrapper call with a credential ended in the non-object
\* output_schema error, and nothing had been sent.
C18_Witness ==
    /\ Done /\ req.tool = "agentic_scrapper" /\ ~NoCredential
    /\ InvalidArguments
    /\ ValidationError
    /\ ErrorText = T(<<"output_schema", " must be a JSON object">>)
    /\ sent = << >>

(***************************************************************************)
(* C19.  For every tool, when the upstream answers with a success status   *)
(* (any 2xx) and a JSON body, the tool returns the decoded body unmodified *)
(* and not an error made of it.                                            *)
(***************************************************************************)
SuccessResponse ==
    /\ response # None
    /\ response[1].kind = "response"
    /\ response[1].status \in 200..299
    /\ json_loads(response[1].text).ok

C19_SuccessBodyReturned ==
    (Done /\ SuccessResponse) => result = Return(json_loads(response[1].text).val)

(***************************************************************************)
(* C20.  Every tool invocation makes at most one outbound request.  Once   *)
(* the upstream has answered or the transport has failed the invocation is *)
(* over with that one request made; and after a timeout, a connection      *)
(* failure or a non-success status what it returned is an error.           *)
(***************************************************************************)
FailedResponse ==
    /\ response # None
    /\ \/ response[1].kind \in {"timeout", "connect"}
       \/ response[1].status \notin 200..299

C20_NoRetry ==
    /\ Len(sent) <= 1
    /\ pc = "wait" => (Len(sent) = 1 /\ response = None)
    /\ response # None => (Done /\ Len(sent) = 1 /\ result # Pending)
    /\ FailedResponse => HasErrorKey

\* A searchscraper call timed out: one request was made and the timeout came
\* back as the error.
C20_Witness ==
    /\ Done /\ req.tool = "searchscraper"
    /\ response # None /\ response[1].kind = "timeout"
    /\ Len(sent) = 1
    /\ HasErrorKey
    /\ ErrorText = T(<<"The read operation timed out">>)

(***************************************************************************)
(* C21.  The network client a tool invocation acquires is released on      *)
(* every exit path: whenever the server is between invocations, no client  *)
(* constructed by an earlier invocation is still open.                     *)
(***************************************************************************)
C21_ClientsReleased == pc = "idle" => opened = 0

(***************************************************************************)
(* C22.  Under every interleaving of concurrent invocations, each outbound *)
(* request carries in its SGAI-APIKEY header the credential of its own     *)
(* invocation's sources (the header's key, else the session                *)
(* configuration's), each invocation holds the key resolved from its own   *)
(* sources, and an invocation whose sources hold no credential sends       *)
(* nothing and returns the credential error, whatever keys other           *)
(* invocations, earlier or in flight, resolved.                            *)
(***************************************************************************)
CredentialOf(ctx) ==
    IF ctx.header.http /\ ctx.header.x_api_key # None /\ ctx.header.x_api_key[1] # << >>
    THEN ctx.header.x_api_key
    ELSE IF ctx.config.present /\ ctx.config.scrapegraph_api_key # None
            /\ ctx.config.scrapegraph_api_key[1] # << >>
    THEN ctx.config.scrapegraph_api_key
    ELSE None

C22_OwnCredential ==
    \A w \in Workers :
        pc[w] # "idle" =>
            LET own == CredentialOf(req[w].ctx) IN
            /\ api_key[w] = own
            /\ sent[w] # << >> =>
                /\ own # None
                /\ sent[w][1].headers["SGAI-APIKEY"] = own[1]
            /\ own = None =>
                /\ sent[w] = << >>
                /\ pc[w] = "done"
                /\ result[w] = Return(ErrorEnvelope(NoKeyMessage))

\* Two invocations in flight at once, each request under its own key, while
\* the keys differ.
C22_Witness ==
    \E v, w \in Workers :
        /\ pc[v] = "wait" /\ pc[w] = "wait"
        /\ sent[v][1].headers["SGAI-APIKEY"] = HeaderKey
        /\ sent[w][1].headers["SGAI-APIKEY"] = ConfigKey

(***************************************************************************)
(* C23.  A tool invocation leaves no process state changed.  What a call   *)
(* returns is determined by its own parameters, its own credential sources *)
(* and the upstream's answer, whatever calls came before it and however    *)
(* they ended; and once the call is over the process holds nothing it did  *)
(* not hold before.                                                        *)
(***************************************************************************)
\* What the tool makes of these parameters, sources and answer in a process
\* that has handled no call yet.
Outcome(tool, a, ctx, resp) ==
    LET o == Handler(tool, a, ctx) IN
    IF o.out.kind # "send" THEN o.out
    ELSE LET r == Receive(tool, o.out.request, resp[1]) IN
         IF r.kind = "raise" THEN Boundary(tool, r.exc) ELSE r

OutcomeIsOwn == Done => result = Outcome(req.tool, req.args, req.ctx, response)

C23_NoProcessState ==
    /\ OutcomeIsOwn
    /\ pc = "idle" => opened = 0

(***************************************************************************)
(* C24.  smartcrawler_fetch_results is an idempotent read.  The one        *)
(* request it makes is a GET of /crawl/{request_id} without a body; no     *)
(* step of a fetch changes the upstream's jobs; and every fetch answered   *)
(* while the job is being processed returns the same value, the status     *)
(* "processing", so two such calls return the same.                        *)
(***************************************************************************)
Fetching == req.tool = "smartcrawler_fetch_results"

ProcessingStatus == PyDict("status" :> PyStr(T(<<"processing">>)))

FetchIsOneGet ==
    (Fetching /\ sent # << >>) =>
        /\ Len(sent) = 1
        /\ sent[1].method = "GET"
        /\ sent[1].url = T(<<BASE_URL, "/crawl/">>) \o req.args.request_id.str
        /\ sent[1].json = None

C24_IdempotentRead ==
    [][/\ FetchIsOneGet'
       /\ (pc' # pc /\ (Fetching \/ Fetching')) => jobs' = jobs
       /\ (Fetching /\ pc = "wait" /\ pc' = "done"
                    /\ jobs[req.args.request_id] = "processing") =>
            result' = Return(ProcessingStatus)]_vars

\* The third call of a sequence is a fetch of a job still being processed, and
\* it returned the status.
C24_Witness ==
    /\ Done /\ Fetching
    /\ opened = 3
    /\ jobs[req.args.request_id] = "processing"
    /\ \A id \in JobIds : id # req.args.request_id => jobs[id] = "none"
    /\ result = Return(ProcessingStatus)

(***************************************************************************)
(* C25.  Once the upstream's job has moved from "processing" to            *)
(* "completed", every smartcrawler_fetch_results call for its identifier   *)
(* that holds a credential is sent upstream, and what it returns when the  *)
(* answer comes is the completed status together with the results.         *)
(***************************************************************************)
CompletedResult ==
    PyDict("status" :> PyStr(T(<<"completed">>)) @@ "results" :> PyStr(T(<<"ok">>)))

C25_CompletedSurfaces ==
    [][/\ (pc = "idle" /\ Fetching' /\ ~NoCredential'
                       /\ jobs[req'.args.request_id] = "completed") =>
            (pc' = "wait" /\ sent' # << >>)
       /\ (Fetching /\ pc = "wait" /\ pc' = "done"
                    /\ jobs[req.args.request_id] = "completed") =>
            result' = Return(CompletedResult)]_vars

\* The third call of a sequence is a fetch of a completed job, and it returned
\* the status and the results.
C25_Witness ==
    /\ Done /\ Fetching
    /\ opened = 3
    /\ jobs[req.args.request_id] = "completed"
    /\ \A id \in JobIds : id # req.args.request_id => jobs[id] = "none"
    /\ result = Return(CompletedResult)

(***************************************************************************)
(* Vocabulary of the payload properties.                                   *)
(***************************************************************************)
\* The parameters of a tool that its signature marks Optional.
OptionalParams(tool) ==
    CASE tool = "smartscraper" ->
            {"website_url", "website_html", "website_markdown", "output_schema",
             "number_of_scrolls", "total_pages", "render_heavy_js", "stealth"}
      [] tool = "searchscraper" -> {"num_results", "number_of_scrolls"}
      [] tool = "smartcrawler_initiate" ->
            {"prompt", "depth", "max_pages", "same_domain_only"}
      [] tool = "scrape" -> {"render_heavy_js"}
      [] tool = "agentic_scrapper" ->
            {"user_prompt", "output_schema", "steps", "ai_extraction",
             "persistent_session", "timeout_seconds"}
      [] OTHER -> {}

\* Those a tool copies into the payload under their own name when given.
ForwardedParams(tool) ==
    OptionalParams(tool) \ (SourceKeys \cup {"prompt", "timeout_seconds"})

HasPayload == Invoked /\ sent # << >> /\ sent[1].json # None

(***************************************************************************)
(* C26, as stated.  For every optional parameter of every tool, the        *)
(* outbound payload holds the parameter's key if and only if the caller    *)
(* supplied a value.                                                       *)
(***************************************************************************)
C26_EveryOptionalForwarded ==
    HasPayload =>
        \A p \in OptionalParams(req.tool) :
            (p \in DOMAIN Payload) <=> (req.args[p] # None)

(***************************************************************************)
(* C26, amended.  For every optional parameter a tool forwards under its   *)
(* own name, the payload holds the key if and only if the caller supplied  *)
(* a value, and a supplied boolean, integer or prompt is forwarded as      *)
(* given, false and zero included.  The others are not forwarded so: of    *)
(* smartscraper's content sources at most one is in the payload, and only  *)
(* a supplied one; smartcrawler_initiate's prompt is in the payload        *)
(* exactly in ai mode; agentic_scrapper's timeout_seconds never is.        *)
(***************************************************************************)
C26_ForwardedIffSupplied ==
    HasPayload =>
        /\ \A p \in ForwardedParams(req.tool) :
            /\ (p \in DOMAIN Payload) <=> (req.args[p] # None)
            /\ (req.args[p] # None /\ p \notin {"output_schema", "steps"}) =>
                    Payload[p] = req.args[p][1]
        /\ "timeout_seconds" \notin DOMAIN Payload
        /\ req.tool = "smartscraper" =>
            /\ Cardinality(DOMAIN Payload \cap SourceKeys) = 1
            /\ DOMAIN Payload \cap SourceKeys \subseteq SourcesSupplied
        /\ req.tool = "smartcrawler_initiate" =>
            /\ ("prompt" \in DOMAIN Payload) <=> (req.args.extraction_mode = "ai")
            /\ "prompt" \in DOMAIN Payload => Payload["prompt"] = req.args.prompt[1]

\* A search was given num_results = 0 and no number_of_scrolls: the zero went
\* out and no number_of_scrolls did.
C26_Witness ==
    /\ HasPayload /\ req.tool = "searchscraper"
    /\ req.args.num_results = Some([int |-> 0])
    /\ req.args.number_of_scrolls = None
    /\ Payload["num_results"] = [int |-> 0]
    /\ "number_of_scrolls" \notin DOMAIN Payload

(***************************************************************************)
(* C27.  Every outbound request is made under a timeout: 120 for every     *)
(* tool, except that an agentic_scrapper call given timeout_seconds is     *)
(* made under exactly that value; an agentic_scrapper call without         *)
(* timeout_seconds is made under 120 as well.                              *)
(***************************************************************************)
TimeoutOverridden ==
    req.tool = "agentic_scrapper" /\ req.args.timeout_seconds # None

C27_Timeout ==
    (Invoked /\ sent # << >>) =>
        sent[1].timeout = IF TimeoutOverridden THEN req.args.timeout_seconds[1]
                          ELSE 120

\* An agentic_scrapper call given timeout_seconds = 300 went out under 300.
C27_Witness ==
    /\ Invoked /\ sent # << >>
    /\ req.tool = "agentic_scrapper"
    /\ req.args.timeout_seconds = Some(300)
    /\ sent[1].timeout = 300

(***************************************************************************)
(* C28.  smartcrawler_initiate in ai mode sends a request only when the    *)
(* prompt is a non-empty string, and then forwards that prompt as given;   *)
(* an empty-string prompt sends nothing and returns an error, like a       *)
(* missing one.                                                            *)
(***************************************************************************)
EmptyPrompt == req.args.prompt # None /\ req.args.prompt[1].str = << >>

C28_NonEmptyPrompt ==
    (Invoked /\ req.tool = "smartcrawler_initiate" /\ req.args.extraction_mode = "ai") =>
        /\ sent # << >> =>
            /\ req.args.prompt # None
            /\ ~EmptyPrompt
            /\ Payload["prompt"] = req.args.prompt[1]
        /\ EmptyPrompt => (sent = << >> /\ Done /\ HasErrorKey)

(***************************************************************************)
(* C29.  smartscraper given several content sources at once is not         *)
(* rejected: once it gets to the client method a request is built, and its *)
(* payload holds exactly one source key, the first supplied one in the     *)
(* order website_url, website_html, website_markdown, with the value       *)
(* supplied for it; the other sources are absent from the payload.         *)
(***************************************************************************)
SourcePriority == <<"website_url", "website_html", "website_markdown">>

FirstSupplied ==
    SourcePriority[CHOOSE i \in DOMAIN SourcePriority :
                       /\ SourcePriority[i] \in SourcesSupplied
                       /\ \A j \in 1..(i - 1) : SourcePriority[j] \notin SourcesSupplied]

C30_ArgumentsUntouched ==
    (Invoked /\ req.tool \in SchemaTools) =>
        /\ passed.output_schema = req.args.output_schema
        /\ req.tool = "agentic_scrapper" => passed.steps = req.args.steps

=============================================================================
